---- MODULE Spec2Model ----
(***************************************************************************)
(* Model of the AI search front end: the speech recognition controller     *)
(* (hooks/useSpeechRecognition.ts), the search store (SearchContext) and   *)
(* the search bar (components/SearchBar.tsx).                               *)
(*                                                                         *)
(* Text is a sequence of characters; a character is a one-element token    *)
(* (CJK characters are written as their code point, e.g. "u5b66").        *)
(***************************************************************************)
EXTENDS Integers, Sequences, FiniteSets, TLC

(***************************************************************************)
(* Bounds                                                                  *)
(***************************************************************************)
MaxSessions == 2
MaxTimers == 2
MaxQueries == 3
MaxItems == 2
MaxRecords == 1
MaxVoiceResults == 1
MaxSelected == 2
MaxDeletes == 1

(***************************************************************************)
(* Speech recognition controller: hooks/useSpeechRecognition.ts            *)
(***************************************************************************)
VARIABLES
    isSupported,        \* useState isSupported, after the support-check effect
    autoStop,           \* option autoStop
    status,             \* useState status
    transcript,         \* useState transcript
    interimTranscript,  \* useState interimTranscript
    finalTranscript,    \* useState finalTranscript
    error,              \* useState error
    recognitionRef,     \* recognitionRef.current: 0 is null, else a session
    autoStopTimerRef,   \* autoStopTimerRef.current: 0 is null, else a timer id
    session,            \* the engine's sessions (SpeechRecognition instances)
    pendingTimers,      \* timers armed by window.setTimeout and not yet fired or cleared
    nextTimer,          \* next timer id window.setTimeout returns
    disposed,           \* the component using the hook was unmounted
    timerStops,         \* per timer: how often its callback invoked stopListening
    timerCleared        \* per timer: which clearTimeout call cancelled it while pending

speechVars == <<isSupported, autoStop, status, transcript, interimTranscript,
                finalTranscript, error, recognitionRef, autoStopTimerRef, session,
                pendingTimers, nextTimer, disposed, timerStops, timerCleared>>

VARIABLES
    queries,        \* SearchState.queries
    currentQuery,   \* SearchState.currentQuery
    isLoading,      \* SearchState.isLoading
    call,           \* per query id: the addQuery call that created it
    removed,        \* the ids of the records CLEAR_QUERIES has dropped
    deleteAsked     \* the ids handleQueryDelete has been called with

storeVars == <<queries, currentQuery, isLoading, call, removed, deleteAsked>>

VARIABLES
    host,                 \* the page that renders the bar: "home" or "results"
    mounted,              \* the bar is mounted
    query,                \* useState query
    isFocused,            \* useState isFocused
    suggestions,          \* useState suggestions
    searchHistory,        \* useState searchHistory
    selectedIndex,        \* useState selectedIndex
    showImageRecognition, \* useState showImageRecognition
    localStorage,         \* the item 'searchHistory' of window.localStorage
    storageRejects,       \* localStorage.setItem throws (the quota is exceeded)
    voiceTranscript,      \* the hook's transcript while it is not listening, else <<>>
    voiceTimeouts,        \* the pending 500 ms timeouts of the voice-result effect
    voiced,               \* how often the voice-result effect has found a transcript
    voiceSubmitted,       \* how many of the 500 ms timeouts have run
    loaded,               \* the history as the load effect or the last clear left it
    since,                \* the number of terms recorded before that
    recorded,             \* the terms passed to saveSearchHistory, in call order
    searched              \* the terms passed to onSearch, in call order

barVars == <<host, mounted, query, isFocused, suggestions, searchHistory, selectedIndex,
             showImageRecognition, localStorage, storageRejects, voiceTranscript, voiceTimeouts, voiced, voiceSubmitted,
             loaded, since, recorded,
             searched>>

\* The image recognition panel (components/ImageRecognition.tsx).
VARIABLES
    selectedFile,         \* useState selectedFile: 0 for null, else an index of Files
    imageError,           \* useState error of the panel: "null" or a message
    recognitionResults,   \* useState recognitionResults, each item with the file it was produced for
    isRecognizing,        \* useState isRecognizing
    isConfigValid,        \* useState isConfigValid: "null" until checkConfig has answered
    recognitions          \* the calls of imageRecognitionAPI.recognize: their file and position

imageVars == <<selectedFile, imageError, recognitionResults, isRecognizing, isConfigValid,
               recognitions>>

vars == <<speechVars, storeVars, barVars, imageVars>>

IDLE == "idle"
LISTENING == "listening"
RECOGNIZING == "recognizing"
ERROR == "error"
NOT_SUPPORTED == "not_supported"

SpeechRecognitionStatus == {IDLE, LISTENING, RECOGNIZING, ERROR, NOT_SUPPORTED}

NoError == [error |-> "null", message |-> <<"null">>]

Sessions == 1..MaxSessions
Timers == 1..MaxTimers

\* Engine states of a SpeechRecognition instance:
\*   unborn   not constructed yet
\*   created  constructed, start() threw
\*   starting start() returned, onstart not delivered yet
\*   started  onstart delivered
\*   failing  onerror delivered, onend is to follow
\*   ended    onend delivered
Live == {"starting", "started", "failing"}

\* The segments the engine may deliver: text and isFinal.
Segments == {[transcript |-> <<"a">>, isFinal |-> TRUE],
             [transcript |-> <<"c">>, isFinal |-> TRUE],
             [transcript |-> <<"b">>, isFinal |-> FALSE],
             [transcript |-> <<>>, isFinal |-> TRUE]}
Batches == {<<s>> : s \in Segments}
             \cup {p \in Segments \X Segments : p[1] # p[2]}

\* The error codes the engine may report; "weird" is a code the table lacks.
EngineErrors == {"no-speech", "weird"}

getErrorMessage(code) ==
    CASE code = "no-speech" -> <<"no speech detected">>
      [] code = "audio-capture" -> <<"audio capture failed">>
      [] code = "not-allowed" -> <<"microphone permission denied">>
      [] code = "network" -> <<"network error">>
      [] code = "service-not-allowed" -> <<"service unavailable">>
      [] code = "bad-grammar" -> <<"grammar error">>
      [] code = "language-not-supported" -> <<"unsupported language">>
      [] code = "aborted" -> <<"recognition aborted">>
      [] OTHER -> <<"unknown error: ", code>>

\* React drops state updates of an unmounted component.
SetState(new, old) == IF disposed THEN old ELSE new

\* A loop that adds every segment to both texts.
RECURSIVE ConcatEverySegment(_, _, _)
ConcatEverySegment(batch, i, wantFinal) ==
    IF i > Len(batch) THEN <<>>
    ELSE batch[i].transcript \o ConcatEverySegment(batch, i + 1, wantFinal)

RECURSIVE Concat(_, _, _)
\* The loop of onresult: the concatenation of the batch's segments that are
\* final (wantFinal) or interim (~wantFinal), from index i on.
Concat(batch, i, wantFinal) ==
    IF i > Len(batch) THEN <<>>
    ELSE (IF batch[i].isFinal = wantFinal THEN batch[i].transcript ELSE <<>>)
         \o Concat(batch, i + 1, wantFinal)

\* A clearTimeout that leaves the timer armed.
clearTimeoutLeavesArmed(pending, id) == pending

\* clearTimeout(id): the timer no longer fires.
clearTimeout(pending, id) == pending \ {id}

\* The record of which call site cancelled a timer that was still pending.
NoteCleared(cleared, pending, id, cause) ==
    IF id \in pending THEN [cleared EXCEPT ![id] = cause] ELSE cleared

\* A stop() the engine ignores.
EngineStopIgnored(sess, s) == sess

\* recognition.stop() of the engine: a live session is asked to wind down.
EngineStop(sess, s) ==
    IF sess[s].state \in Live THEN [sess EXCEPT ![s].stopRequested = TRUE] ELSE sess

SpeechInit ==
    /\ isSupported \in BOOLEAN
    /\ autoStop \in BOOLEAN
    /\ status = IF isSupported THEN IDLE ELSE NOT_SUPPORTED
    /\ transcript = <<>>
    /\ interimTranscript = <<>>
    /\ finalTranscript = <<>>
    /\ error = NoError
    /\ recognitionRef = 0
    /\ autoStopTimerRef = 0
    /\ session = [s \in Sessions |-> [state |-> "unborn", stopRequested |-> FALSE,
                                      handlers |-> FALSE]]
    /\ pendingTimers = {}
    /\ nextTimer = 1
    /\ disposed = FALSE
    /\ timerStops = [t \in Timers |-> 0]
    /\ timerCleared = [t \in Timers |-> "none"]

\* The sessions constructed so far.
Born == {s \in Sessions : session[s].state # "unborn"}

\* A start whose engine throws and whose exception reaches the caller.
StartSupportedRethrows(outcome) ==
    LET new == Cardinality(Born) + 1
    IN  /\ new \in Sessions
        /\ IF outcome \in {"ctor_throws_error", "ctor_throws_other"}
             THEN UNCHANGED <<error, status, recognitionRef, session>>
             ELSE /\ recognitionRef' = new
                  /\ session' = [session EXCEPT ![new] =
                         [state |-> IF outcome = "ok" THEN "starting" ELSE "created",
                          stopRequested |-> FALSE, handlers |-> TRUE]]
                  /\ UNCHANGED <<error, status>>

\* The body of startListening once isSupported holds; outcome is what the engine
\* does: "ok", the constructor throws, or start() throws (an Error or another value).
StartSupported(outcome) ==
    LET new == Cardinality(Born) + 1
        thrownMessage == IF outcome \in {"ctor_throws_error", "start_throws_error"}
                           THEN <<"engine message">>
                           ELSE <<"speech recognition initialization failed">>
    IN  /\ new \in Sessions
        /\ IF outcome \in {"ctor_throws_error", "ctor_throws_other"}
             THEN /\ error' = [error |-> "initialization_error", message |-> thrownMessage]
                  /\ status' = ERROR
                  /\ UNCHANGED <<recognitionRef, session>>
             ELSE /\ recognitionRef' = new
                  /\ IF outcome = "ok"
                       THEN /\ session' = [session EXCEPT ![new] =
                                   [state |-> "starting", stopRequested |-> FALSE,
                                    handlers |-> TRUE]]
                            /\ UNCHANGED <<error, status>>
                       ELSE /\ session' = [session EXCEPT ![new] =
                                   [state |-> "created", stopRequested |-> FALSE,
                                    handlers |-> TRUE]]
                            /\ error' = [error |-> "initialization_error",
                                         message |-> thrownMessage]
                            /\ status' = ERROR

StartOutcomes == {"ok", "ctor_throws_error", "ctor_throws_other",
                  "start_throws_error", "start_throws_other"}

startListening ==
    /\ ~disposed
    /\ IF ~isSupported
         THEN /\ error' = [error |-> "not_supported",
                           message |-> <<"browser does not support speech recognition">>]
              /\ UNCHANGED <<status, recognitionRef, session>>
         ELSE \E outcome \in StartOutcomes : StartSupported(outcome)
    /\ UNCHANGED <<isSupported, autoStop, transcript, interimTranscript, finalTranscript,
                   autoStopTimerRef, pendingTimers, nextTimer, disposed, timerStops,
                   timerCleared>>
    /\ UNCHANGED <<storeVars, barVars, imageVars>>

\* The body of stopListening, but for its setStatus.
StopBody(cause) ==
    /\ IF recognitionRef # 0
         THEN /\ session' = EngineStop(session, recognitionRef)
              /\ recognitionRef' = 0
         ELSE UNCHANGED <<session, recognitionRef>>
    /\ IF autoStopTimerRef # 0
         THEN /\ pendingTimers' = clearTimeout(pendingTimers, autoStopTimerRef)
              /\ timerCleared' = NoteCleared(timerCleared, pendingTimers,
                                             autoStopTimerRef, cause)
              /\ autoStopTimerRef' = 0
         ELSE UNCHANGED <<pendingTimers, timerCleared, autoStopTimerRef>>

stopListening ==
    /\ StopBody("stop")
    /\ status' = SetState(IDLE, status)
    /\ UNCHANGED <<isSupported, autoStop, transcript, interimTranscript, finalTranscript,
                   error, nextTimer, disposed, timerStops>>
    /\ UNCHANGED <<storeVars, barVars, imageVars>>

reset ==
    /\ StopBody("reset")
    /\ transcript' = SetState(<<>>, transcript)
    /\ interimTranscript' = SetState(<<>>, interimTranscript)
    /\ finalTranscript' = SetState(<<>>, finalTranscript)
    /\ error' = SetState(NoError, error)
    /\ status' = SetState(IDLE, status)
    /\ UNCHANGED <<isSupported, autoStop, nextTimer, disposed, timerStops>>
    /\ UNCHANGED <<storeVars, barVars, imageVars>>

clearTranscript ==
    /\ ~disposed
    /\ transcript' = <<>>
    /\ interimTranscript' = <<>>
    /\ finalTranscript' = <<>>
    /\ UNCHANGED <<isSupported, autoStop, status, error, recognitionRef, autoStopTimerRef,
                   session, pendingTimers, nextTimer, disposed, timerStops, timerCleared>>
    /\ UNCHANGED <<storeVars, barVars, imageVars>>

\* The cleanup effect, run when the component is unmounted.
cleanup ==
    /\ ~disposed
    /\ disposed' = TRUE
    /\ session' = IF recognitionRef # 0 THEN EngineStop(session, recognitionRef) ELSE session
    /\ IF autoStopTimerRef # 0
         THEN /\ pendingTimers' = clearTimeout(pendingTimers, autoStopTimerRef)
              /\ timerCleared' = NoteCleared(timerCleared, pendingTimers,
                                             autoStopTimerRef, "dispose")
         ELSE UNCHANGED <<pendingTimers, timerCleared>>
    /\ UNCHANGED <<isSupported, autoStop, status, transcript, interimTranscript,
                   finalTranscript, error, recognitionRef, autoStopTimerRef, nextTimer,
                   timerStops>>
    /\ UNCHANGED <<storeVars, barVars, imageVars>>

\* recognition.onstart of session s.
onstart(s) ==
    /\ session[s].state = "starting"
    /\ session[s].handlers
    /\ session' = [session EXCEPT ![s].state = "started"]
    /\ status' = SetState(LISTENING, status)
    /\ error' = SetState(NoError, error)
    /\ UNCHANGED <<isSupported, autoStop, transcript, interimTranscript, finalTranscript,
                   recognitionRef, autoStopTimerRef, pendingTimers, nextTimer, disposed,
                   timerStops, timerCleared>>
    /\ UNCHANGED <<storeVars, barVars, imageVars>>

\* recognition.onresult of session s with the segments from event.resultIndex on.
onresult(s, batch) ==
    LET interim == Concat(batch, 1, FALSE)
        final == Concat(batch, 1, TRUE)
    IN  /\ session[s].state = "started"
        /\ session[s].handlers
        /\ interimTranscript' = SetState(interim, interimTranscript)
        /\ finalTranscript' = SetState(final, finalTranscript)
        /\ transcript' = SetState(final \o interim, transcript)
        /\ status' = IF final # <<>> THEN SetState(RECOGNIZING, status) ELSE status
        /\ IF autoStop /\ final # <<>>
             THEN /\ nextTimer \in Timers
                  /\ IF autoStopTimerRef # 0
                       THEN /\ pendingTimers' =
                                 clearTimeout(pendingTimers, autoStopTimerRef)
                                   \cup {nextTimer}
                            /\ timerCleared' = NoteCleared(timerCleared, pendingTimers,
                                                           autoStopTimerRef, "result")
                       ELSE /\ pendingTimers' = pendingTimers \cup {nextTimer}
                            /\ UNCHANGED timerCleared
                  /\ autoStopTimerRef' = nextTimer
                  /\ nextTimer' = nextTimer + 1
             ELSE UNCHANGED <<autoStopTimerRef, pendingTimers, nextTimer, timerCleared>>
        /\ UNCHANGED <<isSupported, autoStop, error, recognitionRef, session, disposed,
                       timerStops>>
        /\ UNCHANGED <<storeVars, barVars, imageVars>>

\* recognition.onerror of session s with event.error = code.
onerror(s, code) ==
    /\ session[s].state \in {"starting", "started"}
    /\ session[s].handlers
    /\ session' = [session EXCEPT ![s].state = "failing"]
    /\ error' = SetState([error |-> code, message |-> getErrorMessage(code)], error)
    /\ status' = SetState(ERROR, status)
    /\ UNCHANGED <<isSupported, autoStop, transcript, interimTranscript, finalTranscript,
                   recognitionRef, autoStopTimerRef, pendingTimers, nextTimer, disposed,
                   timerStops, timerCleared>>
    /\ UNCHANGED <<storeVars, barVars, imageVars>>

\* recognition.onend of session s.
onend(s) ==
    /\ session[s].state \in Live
    /\ session[s].handlers
    /\ session' = [session EXCEPT ![s].state = "ended"]
    /\ status' = SetState(IDLE, status)
    /\ IF autoStopTimerRef # 0
         THEN /\ pendingTimers' = clearTimeout(pendingTimers, autoStopTimerRef)
              /\ timerCleared' = NoteCleared(timerCleared, pendingTimers,
                                             autoStopTimerRef, "end")
              /\ autoStopTimerRef' = 0
         ELSE UNCHANGED <<pendingTimers, timerCleared, autoStopTimerRef>>
    /\ UNCHANGED <<isSupported, autoStop, transcript, interimTranscript, finalTranscript,
                   error, recognitionRef, nextTimer, disposed, timerStops>>
    /\ UNCHANGED <<storeVars, barVars, imageVars>>

\* The callback of the auto-stop timer t: stopListening().
autoStopTimeout(t) ==
    /\ t \in pendingTimers
    /\ timerStops' = [timerStops EXCEPT ![t] = @ + 1]
    /\ IF recognitionRef # 0
         THEN /\ session' = EngineStop(session, recognitionRef)
              /\ recognitionRef' = 0
         ELSE UNCHANGED <<session, recognitionRef>>
    /\ IF autoStopTimerRef # 0
         THEN /\ pendingTimers' = clearTimeout(pendingTimers \ {t}, autoStopTimerRef)
              /\ timerCleared' = NoteCleared(timerCleared, pendingTimers \ {t},
                                             autoStopTimerRef, "stop")
              /\ autoStopTimerRef' = 0
         ELSE /\ pendingTimers' = pendingTimers \ {t}
              /\ UNCHANGED <<timerCleared, autoStopTimerRef>>
    /\ status' = SetState(IDLE, status)
    /\ UNCHANGED <<isSupported, autoStop, transcript, interimTranscript, finalTranscript,
                   error, nextTimer, disposed>>
    /\ UNCHANGED <<storeVars, barVars, imageVars>>

(***************************************************************************)
(* Search store: contexts/SearchContext.tsx, services/api.ts               *)
(***************************************************************************)
QueryIds == 1..MaxQueries

\* currentQuery = null
NullQuery == [id |-> 0]

\* error: undefined
Undefined == <<"undefined">>

\* The texts submitted to addQuery.
QueryTexts == {<<"r", "u", "s", "t">>, <<"g", "o">>}

initialState == [queries |-> <<>>, currentQuery |-> NullQuery, isLoading |-> FALSE]

\* A spread that drops the updates.
SpreadDropsUpdates(q, updates) == q

\* { ...q, ...updates }
Spread(q, updates) ==
    [f \in DOMAIN q \cup DOMAIN updates |->
        IF f \in DOMAIN updates THEN updates[f] ELSE q[f]]

\* A map that applies the updates to every record.
MapUpdateEveryRecord(qs, id, updates) ==
    [i \in 1..Len(qs) |-> Spread(qs[i], updates)]

\* A map that updates no record.
MapUpdateNothing(qs, id, updates) == qs

\* A map that puts a record with the updates in front when no record has the id.
MapUpdateOrInsert(qs, id, updates) ==
    IF \E i \in 1..Len(qs) : qs[i].id = id
      THEN [i \in 1..Len(qs) |-> IF qs[i].id = id THEN Spread(qs[i], updates) ELSE qs[i]]
      ELSE <<Spread([id |-> id, query |-> <<>>, results |-> <<>>, isLoading |-> TRUE,
                     error |-> Undefined], updates)>> \o qs

\* queries.map(q => q.id === id ? { ...q, ...updates } : q)
MapUpdate(qs, id, updates) ==
    [i \in 1..Len(qs) |-> IF qs[i].id = id THEN Spread(qs[i], updates) ELSE qs[i]]

\* A reducer whose ADD_QUERY puts the new record behind the others and leaves
\* the loading flag alone.
searchReducerAppends(state, action) ==
    CASE action.type = "ADD_QUERY" ->
            LET newQuery == [id |-> action.payload.id, query |-> action.payload.query,
                             results |-> <<>>, isLoading |-> TRUE, error |-> Undefined]
            IN  [state EXCEPT !.queries = state.queries \o <<newQuery>>,
                              !.currentQuery = newQuery]
      [] action.type = "UPDATE_QUERY" ->
            [state EXCEPT !.queries = MapUpdate(state.queries, action.payload.id,
                                                action.payload.updates),
                          !.currentQuery =
                              IF state.currentQuery.id = action.payload.id
                                THEN Spread(state.currentQuery, action.payload.updates)
                                ELSE state.currentQuery]
      [] action.type = "SET_CURRENT_QUERY" ->
            [state EXCEPT !.currentQuery = action.payload]
      [] action.type = "CLEAR_QUERIES" ->
            [state EXCEPT !.queries = <<>>, !.currentQuery = NullQuery]
      [] action.type = "SET_LOADING" ->
            [state EXCEPT !.isLoading = action.payload]
      [] OTHER -> state

\* The reducer; the timestamp of a record is left out.
searchReducer(state, action) ==
    CASE action.type = "ADD_QUERY" ->
            LET newQuery == [id |-> action.payload.id, query |-> action.payload.query,
                             results |-> <<>>, isLoading |-> TRUE, error |-> Undefined]
            IN  [state EXCEPT !.queries = <<newQuery>> \o state.queries,
                              !.currentQuery = newQuery,
                              !.isLoading = TRUE]
      [] action.type = "UPDATE_QUERY" ->
            [state EXCEPT !.queries = MapUpdate(state.queries, action.payload.id,
                                                action.payload.updates),
                          !.currentQuery =
                              IF state.currentQuery.id = action.payload.id
                                THEN Spread(state.currentQuery, action.payload.updates)
                                ELSE state.currentQuery]
      [] action.type = "SET_CURRENT_QUERY" ->
            [state EXCEPT !.currentQuery = action.payload]
      [] action.type = "CLEAR_QUERIES" ->
            [state EXCEPT !.queries = <<>>, !.currentQuery = NullQuery]
      [] action.type = "SET_LOADING" ->
            [state EXCEPT !.isLoading = action.payload]
      [] OTHER -> state

\* What the GitHub repository search does for one request: it answers with n
\* items, or the request fails with an Error or the payload carries a message.
GitHubOutcomes == [kind : {"items"}, n : 0..MaxItems]
                    \cup [kind : {"fails"}, message : {<<"network connection failed">>,
                                                      <<"GitHub API error">>}]

Max(a, b) == IF a >= b THEN a ELSE b

\* relevance is kept in hundredths: Math.max(0.5, 1 - index * 0.1)
transformGitHubResults(n) ==
    [i \in 1..n |-> [id |-> <<"github", i>>, type |-> "web",
                     relevance |-> Max(50, 100 - (i - 1) * 10)]]

mockSearchResults(text) ==
    << [id |-> <<"mock", 1>>, type |-> "web", relevance |-> 95, about |-> text],
       [id |-> <<"mock", 2>>, type |-> "news", relevance |-> 88, about |-> text],
       [id |-> <<"mock", 3>>, type |-> "image", relevance |-> 82, about |-> text] >>

\* githubSearchAPI.searchRepositories: resolves with the results or rejects.
searchRepositories(text, outcome) ==
    IF outcome.kind = "items"
      THEN [settled |-> "resolved", results |-> transformGitHubResults(outcome.n)]
      ELSE [settled |-> "rejected", message |-> outcome.message]

\* A search that hands the rejection on.
searchWithoutFallback(text, outcome) == searchRepositories(text, outcome)

\* searchAPI.search: the repository search, with the mock results when it rejects.
search(text, outcome) ==
    LET r == searchRepositories(text, outcome)
    IN  IF r.settled = "resolved"
          THEN r
          ELSE [settled |-> "resolved", results |-> mockSearchResults(text)]

State == [queries |-> queries, currentQuery |-> currentQuery, isLoading |-> isLoading]

SetStore(state) ==
    /\ queries' = state.queries
    /\ currentQuery' = state.currentQuery
    /\ isLoading' = state.isLoading

StoreInit ==
    /\ queries = initialState.queries
    /\ currentQuery = initialState.currentQuery
    /\ isLoading = initialState.isLoading
    /\ call = [id \in QueryIds |-> [pc |-> "unborn"]]
    /\ removed = {}
    /\ deleteAsked = {}

\* A generator that hands out the id of the newest record again.
generateIdAgain == Max(1, Cardinality({id \in QueryIds : call[id].pc # "unborn"}))

\* generateId(): an id no earlier call got.
generateId == Cardinality({id \in QueryIds : call[id].pc # "unborn"}) + 1

\* addQuery up to its await.
addQuery(text) ==
    LET queryId == generateId
    IN  /\ queryId \in QueryIds
        /\ SetStore(searchReducer(State, [type |-> "ADD_QUERY",
                                          payload |-> [query |-> text, id |-> queryId]]))
        /\ call' = [call EXCEPT ![queryId] = [pc |-> "awaiting", query |-> text]]
        /\ UNCHANGED <<removed, deleteAsked>>
        /\ UNCHANGED <<speechVars, barVars, imageVars>>

\* A completion that clears the loading flag only for the current query.
AfterAwaitOfCurrentOnly(state, queryId, r) ==
    LET updates == IF r.settled = "resolved"
                     THEN [results |-> r.results, isLoading |-> FALSE]
                     ELSE [error |-> r.message, isLoading |-> FALSE]
        updated == searchReducer(state, [type |-> "UPDATE_QUERY",
                                         payload |-> [id |-> queryId,
                                                      updates |-> updates]])
    IN  IF state.currentQuery.id = queryId
          THEN searchReducer(updated, [type |-> "SET_LOADING", payload |-> FALSE])
          ELSE updated

\* The two dispatches of addQuery after its await: the update of try or catch,
\* then the SET_LOADING of finally.
AfterAwait(state, queryId, r) ==
    LET updates == IF r.settled = "resolved"
                     THEN [results |-> r.results, isLoading |-> FALSE]
                     ELSE [error |-> r.message, isLoading |-> FALSE]
        updated == searchReducer(state, [type |-> "UPDATE_QUERY",
                                         payload |-> [id |-> queryId,
                                                      updates |-> updates]])
    IN  searchReducer(updated, [type |-> "SET_LOADING", payload |-> FALSE])

\* addQuery from its await on: the search call of queryId settles.
addQuerySettles(queryId, outcome) ==
    /\ call[queryId].pc = "awaiting"
    /\ SetStore(AfterAwait(State, queryId, search(call[queryId].query, outcome)))
    /\ call' = [call EXCEPT ![queryId] = [pc |-> "settled", query |-> call[queryId].query,
                                          outcome |-> outcome,
                                          late |-> queryId \in removed]]
    /\ UNCHANGED <<removed, deleteAsked>>
    /\ UNCHANGED <<speechVars, barVars, imageVars>>

clearQueries ==
    /\ SetStore(searchReducer(State, [type |-> "CLEAR_QUERIES"]))
    /\ removed' = removed \cup {queries[i].id : i \in 1..Len(queries)}
    /\ UNCHANGED <<call, deleteAsked>>
    /\ UNCHANGED <<speechVars, barVars, imageVars>>

\* The delete button of a record in the history panel, which HomePage wires
\* to handleQueryDelete: the handler writes the id to the console. (HomePage
\* keeps the panel hidden; the action follows the handler as the button
\* calls it.)
handleQueryDelete(id) ==
    /\ \E i \in 1..Len(queries) : queries[i].id = id
    /\ id \notin deleteAsked
    /\ Cardinality(deleteAsked) < MaxDeletes
    /\ deleteAsked' = deleteAsked \cup {id}
    /\ UNCHANGED <<queries, currentQuery, isLoading, call, removed>>
    /\ UNCHANGED <<speechVars, barVars, imageVars>>

(***************************************************************************)
(* Search bar: components/SearchBar.tsx                                    *)
(***************************************************************************)

\* --- text ---------------------------------------------------------------

Min(a, b) == IF a <= b THEN a ELSE b

\* array.slice(0, n) and string.slice(0, n)
slice(seq, n) == SubSeq(seq, 1, Min(n, Len(seq)))

UpperCase == <<"A", "B", "C", "D", "E", "F", "G", "H", "I", "J", "K", "L", "M",
               "N", "O", "P", "Q", "R", "S", "T", "U", "V", "W", "X", "Y", "Z">>
LowerCase == <<"a", "b", "c", "d", "e", "f", "g", "h", "i", "j", "k", "l", "m",
               "n", "o", "p", "q", "r", "s", "t", "u", "v", "w", "x", "y", "z">>

\* String.prototype.toLowerCase
toLowerCase(t) ==
    [i \in 1..Len(t) |->
        IF \E k \in 1..26 : UpperCase[k] = t[i]
          THEN LowerCase[CHOOSE k \in 1..26 : UpperCase[k] = t[i]]
          ELSE t[i]]

\* String.prototype.includes
includes(t, sub) ==
    \E i \in 0..(Len(t) - Len(sub)) : SubSeq(t, i + 1, i + Len(sub)) = sub

RECURSIVE trimStart(_)
trimStart(t) == IF t # <<>> /\ Head(t) = " " THEN trimStart(Tail(t)) ELSE t

RECURSIVE trimEnd(_)
trimEnd(t) ==
    IF t # <<>> /\ t[Len(t)] = " " THEN trimEnd(SubSeq(t, 1, Len(t) - 1)) ELSE t

\* String.prototype.trim
trim(t) == trimEnd(trimStart(t))

\* the header text of the history section ("search history")
HistoryHeaderText == <<"u641c", "u7d22", "u5386", "u53f2">>
\* the header text of the trending section ("hot searches")
TrendingHeaderText == <<"u70ed", "u95e8", "u641c", "u7d22">>
\* trendingSearches: AI development trends; machine learning algorithms; deep learning frameworks; natural language processing; computer vision technology; data science tools; cloud computing platforms; blockchain applications
trendingSearches ==
    << <<"u4eba", "u5de5", "u667a", "u80fd", "u53d1", "u5c55", "u8d8b", "u52bf">>,
       <<"u673a", "u5668", "u5b66", "u4e60", "u7b97", "u6cd5">>,
       <<"u6df1", "u5ea6", "u5b66", "u4e60", "u6846", "u67b6">>,
       <<"u81ea", "u7136", "u8bed", "u8a00", "u5904", "u7406">>,
       <<"u8ba1", "u7b97", "u673a", "u89c6", "u89c9", "u6280", "u672f">>,
       <<"u6570", "u636e", "u79d1", "u5b66", "u5de5", "u5177">>,
       <<"u4e91", "u8ba1", "u7b97", "u5e73", "u53f0">>,
       <<"u533a", "u5757", "u94fe", "u5e94", "u7528">> >>
\* keyword "ai"
KwAi == <<"a", "i">>
\* keyword "artificial intelligence"
KwArtificialIntelligence == <<"u4eba", "u5de5", "u667a", "u80fd">>
\* keyword "study"
KwStudy == <<"u5b66", "u4e60">>
\* keyword "learn"
KwLearn == <<"l", "e", "a", "r", "n">>
\* keyword "technology"
KwTechnology == <<"u6280", "u672f">>
\* keyword "tech"
KwTech == <<"t", "e", "c", "h">>
\* template " development trends"
SufTrend == <<" ", "u53d1", "u5c55", "u8d8b", "u52bf">>
\* template " application scenarios"
SufApp == <<" ", "u5e94", "u7528", "u573a", "u666f">>
\* template " tutorial"
SufTutorial == <<" ", "u6559", "u7a0b">>
\* template " recommended resources"
SufResource == <<" ", "u8d44", "u6e90", "u63a8", "u8350">>
\* template " latest progress"
SufLatest == <<" ", "u6700", "u65b0", "u8fdb", "u5c55">>
\* template " what is it"
SufWhat == <<" ", "u662f", "u4ec0", "u4e48">>
\* template "how to" (a prefix)
PreHow == <<"u5982", "u4f55">>
\* relatedMap, in the order of Object.entries: keys ai, machine learning, deep learning,
\* python, javascript, react, database, cloud computing.
relatedMap ==
    << [key |-> <<"a", "i">>,
        values |-> << <<"u673a", "u5668", "u5b66", "u4e60">>,
                    <<"u6df1", "u5ea6", "u5b66", "u4e60">>,
                    <<"u795e", "u7ecf", "u7f51", "u7edc">>,
                    <<"u81ea", "u7136", "u8bed", "u8a00", "u5904", "u7406">> >>],
       [key |-> <<"u673a", "u5668", "u5b66", "u4e60">>,
        values |-> << <<"u6df1", "u5ea6", "u5b66", "u4e60">>,
                    <<"u76d1", "u7763", "u5b66", "u4e60">>,
                    <<"u65e0", "u76d1", "u7763", "u5b66", "u4e60">>,
                    <<"u5f3a", "u5316", "u5b66", "u4e60">> >>],
       [key |-> <<"u6df1", "u5ea6", "u5b66", "u4e60">>,
        values |-> << <<"u795e", "u7ecf", "u7f51", "u7edc">>,
                    <<"u5377", "u79ef", "u795e", "u7ecf", "u7f51", "u7edc">>,
                    <<"u5faa", "u73af", "u795e", "u7ecf", "u7f51", "u7edc">>,
                    <<"T", "r", "a", "n", "s", "f", "o", "r", "m", "e", "r">> >>],
       [key |-> <<"p", "y", "t", "h", "o", "n">>,
        values |-> << <<"u6570", "u636e", "u5206", "u6790">>,
                    <<"u673a", "u5668", "u5b66", "u4e60">>,
                    <<"W", "e", "b", "u5f00", "u53d1">>,
                    <<"u81ea", "u52a8", "u5316">> >>],
       [key |-> <<"j", "a", "v", "a", "s", "c", "r", "i", "p", "t">>,
        values |-> << <<"u524d", "u7aef", "u5f00", "u53d1">>,
                    <<"N", "o", "d", "e", ".", "j", "s">>,
                    <<"R", "e", "a", "c", "t">>,
                    <<"V", "u", "e">> >>],
       [key |-> <<"r", "e", "a", "c", "t">>,
        values |-> << <<"u524d", "u7aef", "u6846", "u67b6">>,
                    <<"u7ec4", "u4ef6", "u5316">>,
                    <<"u72b6", "u6001", "u7ba1", "u7406">>,
                    <<"H", "o", "o", "k", "s">> >>],
       [key |-> <<"u6570", "u636e", "u5e93">>,
        values |-> << <<"S", "Q", "L">>,
                    <<"N", "o", "S", "Q", "L">>,
                    <<"M", "o", "n", "g", "o", "D", "B">>,
                    <<"R", "e", "d", "i", "s">> >>],
       [key |-> <<"u4e91", "u8ba1", "u7b97">>,
        values |-> << <<"A", "W", "S">>,
                    <<"A", "z", "u", "r", "e">>,
                    <<"G", "o", "o", "g", "l", "e", " ", "C", "l", "o", "u", "d">>,
                    <<"D", "o", "c", "k", "e", "r">> >>] >>
\* typed text " "
TypedBlank == <<" ">>
\* typed text "AI" + "technology" + "study" + " "
TypedMixed == <<"A", "I", "u6280", "u672f", "u5b66", "u4e60", " ">>

\* --- the program's constants ---------------------------------------------

HistoryCap == 10
SuggestionCap == 8
HistoryShown == 5
TrendingShown == 5
HistoryMatchesShown == 3
RelatedShown == 2

\* The prop isLoading of the bar: neither page passes it, so it has its default.
isLoadingProp == FALSE

\* --- the inputs ------------------------------------------------------------

\* The texts typed into the input.
TypedTexts == {TypedBlank, TypedMixed}

\* The transcripts of the voice recognition.
VoiceTexts == {<<"v">>}

\* The keywords the image recognition hands over: name || keyword || ''.
ImageTexts == {<<"c", "\"", "\\">>, <<>>}

\* A searched text with the characters JSON has a meaning for.
QuotedText == <<"q", "\"", ",", "\\", "]", "[">>

\* A full history, as an earlier visit left it in localStorage.
FullHistory ==
    << trim(TypedMixed) \o SufTutorial, toLowerCase(TypedMixed) \o <<"q">>, QuotedText >>
      \o [i \in 1..(HistoryCap - 3) |-> <<"q", LowerCase[i]>>]

\* localStorage.getItem('searchHistory') === null
Absent == [present |-> FALSE]

\* The characters JSON.stringify escapes with a backslash, of those in use here.
JSONescaped == {"\"", "\\"}

\* An escape that leaves every character as it is.
JSONescapeNothing(t) == t

RECURSIVE JSONescape(_)
\* The characters of a string as JSON.stringify writes them between the quotes.
JSONescape(t) ==
    IF t = <<>>
      THEN <<>>
      ELSE (IF Head(t) \in JSONescaped THEN <<"\\", Head(t)>> ELSE <<Head(t)>>)
           \o JSONescape(Tail(t))

RECURSIVE JSONelements(_)
\* The elements of an array of strings, quoted and separated by commas.
JSONelements(history) ==
    IF history = <<>>
      THEN <<>>
      ELSE <<"\"">> \o JSONescape(Head(history)) \o <<"\"">>
           \o (IF Tail(history) = <<>> THEN <<>> ELSE <<",">>)
           \o JSONelements(Tail(history))

\* JSON.stringify of an array of strings: the text, character by character.
JSONstringify(history) == <<"[">> \o JSONelements(history) \o <<"]">>

RECURSIVE JSONstringFrom(_, _, _)
\* The parser inside a string, from character i on: the string read so far. It
\* ends at the closing quote, or with the text, and hands back the string and
\* the position after it.
JSONstringFrom(json, i, current) ==
    IF i > Len(json)
      THEN [text |-> current, next |-> i]
      ELSE CASE json[i] = "\\" /\ i < Len(json) ->
                  JSONstringFrom(json, i + 2, Append(current, json[i + 1]))
             [] json[i] = "\"" -> [text |-> current, next |-> i + 1]
             [] OTHER -> JSONstringFrom(json, i + 1, Append(current, json[i]))

RECURSIVE JSONarrayFrom(_, _, _)
\* The parser between the strings, from character i on: the elements read so far.
JSONarrayFrom(json, i, elements) ==
    IF i > Len(json) \/ json[i] = "]"
      THEN elements
      ELSE IF json[i] = "\""
             THEN LET string == JSONstringFrom(json, i + 1, <<>>)
                  IN  JSONarrayFrom(json, string.next, Append(elements, string.text))
             ELSE JSONarrayFrom(json, i + 1, elements)

\* JSON.parse of the text of an array of strings.
JSONparse(json) == JSONarrayFrom(json, 1, <<>>)

setItem(json) == [present |-> TRUE, item |-> json]

\* --- suggestions -----------------------------------------------------------

Suggestion(name, key, index, text, type) ==
    [id |-> <<name, key, index>>, text |-> text, type |-> type]

generateSmartSuggestions(input) ==
    LET inputLower == toLowerCase(input)
        ai == IF includes(inputLower, KwAi) \/ includes(inputLower, KwArtificialIntelligence)
                THEN << Suggestion("smart-ai", <<>>, 0, input \o SufTrend, "smart"),
                        Suggestion("smart-ai-app", <<>>, 0, input \o SufApp, "smart") >>
                ELSE <<>>
        learn == IF includes(inputLower, KwStudy) \/ includes(inputLower, KwLearn)
                   THEN << Suggestion("smart-learn", <<>>, 0, input \o SufTutorial, "smart"),
                           Suggestion("smart-learn-resource", <<>>, 0,
                                      input \o SufResource, "smart") >>
                   ELSE <<>>
        tech == IF includes(inputLower, KwTechnology) \/ includes(inputLower, KwTech)
                  THEN << Suggestion("smart-tech", <<>>, 0, input \o SufLatest, "smart") >>
                  ELSE <<>>
        specific == ai \o learn \o tech
    IN  IF Len(specific) = 0
          THEN << Suggestion("smart-general", <<>>, 0, input \o SufWhat, "smart"),
                  Suggestion("smart-how", <<>>, 0, PreHow \o input, "smart") >>
          ELSE specific

generateRelatedSearches(input) ==
    LET inputLower == toLowerCase(input)
        hits == {k \in 1..Len(relatedMap) : includes(inputLower, relatedMap[k].key)}
    IN  IF hits = {}
          THEN <<>>
          ELSE LET k == CHOOSE h \in hits : \A g \in hits : h <= g
                   values == slice(relatedMap[k].values, RelatedShown)
               IN  [i \in 1..Len(values) |->
                       Suggestion("related", relatedMap[k].key, i - 1, values[i], "related")]

\* An empty-input branch that lists the trending section first.
emptyInputSuggestionsTrendingFirst(history) ==
    LET shown == slice(history, HistoryShown)
        trending == slice(trendingSearches, TrendingShown)
    IN  << Suggestion("trending-header", <<>>, 0, TrendingHeaderText, "trending") >>
        \o [i \in 1..Len(trending) |->
               Suggestion("trending", <<>>, i - 1, trending[i], "trending")]
        \o (IF Len(history) > 0
              THEN << Suggestion("history-header", <<>>, 0, HistoryHeaderText, "history") >>
                   \o [i \in 1..Len(shown) |->
                          Suggestion("history", <<>>, i - 1, shown[i], "history")]
              ELSE <<>>)

\* The branch of generateSuggestions for an empty input.
emptyInputSuggestions(history) ==
    LET shown == slice(history, HistoryShown)
        trending == slice(trendingSearches, TrendingShown)
    IN  (IF Len(history) > 0
           THEN << Suggestion("history-header", <<>>, 0, HistoryHeaderText, "history") >>
                \o [i \in 1..Len(shown) |->
                       Suggestion("history", <<>>, i - 1, shown[i], "history")]
           ELSE <<>>)
        \o << Suggestion("trending-header", <<>>, 0, TrendingHeaderText, "trending") >>
        \o [i \in 1..Len(trending) |->
               Suggestion("trending", <<>>, i - 1, trending[i], "trending")]

\* A collection for a non-empty input that puts the related searches first.
typedInputSuggestionsRelatedFirst(input, history) ==
    LET inputLower == toLowerCase(input)
        matches == slice(SelectSeq(history,
                                   LAMBDA item : includes(toLowerCase(item), inputLower)),
                         HistoryMatchesShown)
        historyMatches == [i \in 1..Len(matches) |->
                              Suggestion("history-match", <<>>, i - 1, matches[i], "history")]
    IN  generateRelatedSearches(input) \o historyMatches \o generateSmartSuggestions(input)

\* The suggestions generateSuggestions collects for a non-empty input.
typedInputSuggestions(input, history) ==
    LET inputLower == toLowerCase(input)
        matches == slice(SelectSeq(history,
                                   LAMBDA item : includes(toLowerCase(item), inputLower)),
                         HistoryMatchesShown)
        historyMatches == [i \in 1..Len(matches) |->
                              Suggestion("history-match", <<>>, i - 1, matches[i], "history")]
    IN  historyMatches \o generateSmartSuggestions(input) \o generateRelatedSearches(input)

\* generateSuggestions without the final slice(0, 8).
generateSuggestionsUnsliced(input, history) ==
    IF trim(input) = <<>>
      THEN emptyInputSuggestions(history)
      ELSE typedInputSuggestions(input, history)

generateSuggestions(input, history) ==
    IF trim(input) = <<>>
      THEN emptyInputSuggestions(history)
      ELSE slice(typedInputSuggestions(input, history), SuggestionCap)

\* The items the popup renders as a section title, not as a button.
IsHeader(suggestion) ==
    includes(suggestion.text, HistoryHeaderText) \/ includes(suggestion.text, TrendingHeaderText)

\* --- the handlers, as functions of the bar's state ---------------------------

Bar == [mounted |-> mounted, query |-> query, isFocused |-> isFocused,
        suggestions |-> suggestions, searchHistory |-> searchHistory,
        selectedIndex |-> selectedIndex, showImageRecognition |-> showImageRecognition,
        localStorage |-> localStorage, voiceTranscript |-> voiceTranscript,
        voiceTimeouts |-> voiceTimeouts, recorded |-> recorded, searched |-> searched]

SetBar(b) ==
    /\ mounted' = b.mounted
    /\ query' = b.query
    /\ isFocused' = b.isFocused
    /\ suggestions' = b.suggestions
    /\ searchHistory' = b.searchHistory
    /\ selectedIndex' = b.selectedIndex
    /\ showImageRecognition' = b.showImageRecognition
    /\ localStorage' = b.localStorage
    /\ voiceTranscript' = b.voiceTranscript
    /\ voiceTimeouts' = b.voiceTimeouts
    /\ recorded' = b.recorded
    /\ searched' = b.searched

\* saveSearchHistory of a render whose searchHistory was history. When setItem
\* throws, the item stays as it was and the exception leaves saveSearchHistory:
\* its caller runs no further (Thrown).
saveSearchHistory(b, history, searchTerm) ==
    LET newHistory == slice(<<searchTerm>> \o SelectSeq(history, LAMBDA item : item # searchTerm),
                            HistoryCap)
    IN  [b EXCEPT !.searchHistory = newHistory,
                  !.localStorage = IF storageRejects
                                     THEN @
                                     ELSE setItem(JSONstringify(newHistory)),
                  !.recorded = Append(@, searchTerm)]

\* saveSearchHistory has thrown: the statements after it in the handler are skipped.
Thrown == storageRejects

\* onSearch: the page's handleSearch or handleNewSearch. The home page gives way
\* to the results page as soon as there is a current query, which unmounts the bar.
onSearch(b, term) ==
    [b EXCEPT !.searched = Append(@, term),
              !.mounted = @ /\ host = "results"]

\* The voice-result effect (deps transcript, isListening, onSearch, resetSpeech)
\* with a transcript and the hook not listening: it fills the input and arms the
\* 500 ms timeout, whose callback closes over the render the effect belongs to.
voiceResultEffect(b) ==
    [b EXCEPT !.query = b.voiceTranscript,
              !.voiceTimeouts = Append(@, [transcript |-> b.voiceTranscript,
                                           searchHistory |-> b.searchHistory])]

\* The render after a handler and its effects. The voice-result effect runs
\* again when the page has rendered again and handed over a new onSearch, which
\* the results page does after every search; the suggestion effect (deps query,
\* isFocused, searchHistory) runs when one of these changed; historySet:
\* setSearchHistory was called.
Render(old, new, historySet) ==
    LET voice == IF /\ new.mounted
                    /\ Len(new.searched) > Len(old.searched)
                    /\ new.voiceTranscript # <<>>
                   THEN voiceResultEffect(new)
                   ELSE new
    IN  IF /\ voice.mounted
           /\ voice.isFocused
           /\ (old.query # voice.query \/ old.isFocused # voice.isFocused \/ historySet)
          THEN [voice EXCEPT !.suggestions =
                                 generateSuggestions(voice.query, voice.searchHistory),
                             !.selectedIndex = -1]
          ELSE voice

handleSubmit(b) ==
    IF trim(b.query) # <<>> /\ ~isLoadingProp
      THEN LET searchTerm == trim(b.query)
               saved == saveSearchHistory(b, b.searchHistory, searchTerm)
           IN  IF Thrown THEN saved ELSE onSearch(saved, searchTerm)
      ELSE b

\* The submit event of the form and the render after it.
SubmitEvent(b) ==
    Render(b, handleSubmit(b), trim(b.query) # <<>> /\ ~isLoadingProp)

\* A click on a <button> without a type inside the form, where the button is
\* inside an AnimatePresence whose exit animation keeps it in the document after
\* the handler's render: the browser then submits the form, unless the page
\* with the bar is gone.
ThenSubmit(b) == IF b.mounted THEN SubmitEvent(b) ELSE b

handleSuggestionClick(b, suggestion) ==
    IF suggestion.type \in {"history", "trending", "related", "smart"}
      THEN LET saved == saveSearchHistory([b EXCEPT !.query = suggestion.text],
                                          b.searchHistory, suggestion.text)
           IN  IF Thrown
                 THEN saved
                 ELSE [onSearch(saved, suggestion.text) EXCEPT !.isFocused = FALSE]
      ELSE b

\* The X button is rendered only while the history is not empty: the render
\* after the handler removes it, and no submit follows the click.
clearSearchHistoryBody(b) ==
    [b EXCEPT !.searchHistory = <<>>, !.localStorage = Absent]

\* onClick of the button of a suggestion of the popup.
onClickSuggestion(b, suggestion) ==
    ThenSubmit(Render(b, handleSuggestionClick(b, suggestion), TRUE))

handleImageRecognitionSearchBody(b, text) ==
    LET saved == saveSearchHistory([b EXCEPT !.query = text], b.searchHistory, text)
    IN  IF Thrown
          THEN saved
          ELSE [onSearch(saved, text) EXCEPT !.showImageRecognition = FALSE]

handleKeyDownBody(b, key) ==
    IF ~b.isFocused \/ Len(b.suggestions) = 0
      THEN b
      ELSE CASE key = "ArrowDown" ->
                  [b EXCEPT !.selectedIndex =
                       IF @ < Len(b.suggestions) - 1 THEN @ + 1 ELSE 0]
             [] key = "ArrowUp" ->
                  [b EXCEPT !.selectedIndex =
                       IF @ > 0 THEN @ - 1 ELSE Len(b.suggestions) - 1]
             [] key = "Enter" ->
                  IF b.selectedIndex >= 0 /\ b.selectedIndex < Len(b.suggestions)
                    THEN LET suggestion == b.suggestions[b.selectedIndex + 1]
                         IN  IF /\ suggestion.type # "history"
                                /\ ~includes(suggestion.text, HistoryHeaderText)
                                /\ ~includes(suggestion.text, TrendingHeaderText)
                               THEN handleSuggestionClick(b, suggestion)
                               ELSE b
                    ELSE IF trim(b.query) # <<>> THEN handleSubmit(b) ELSE b
             [] key = "Escape" ->
                  [b EXCEPT !.isFocused = FALSE, !.selectedIndex = -1]
             [] OTHER -> b

\* onKeyDown of the input and the render after it.
onKeyDown(b, key) ==
    LET after == handleKeyDownBody(b, key)
    IN  Render(b, after, Len(after.recorded) > Len(b.recorded))

\* --- the actions -------------------------------------------------------------

BarInit ==
    /\ host \in {"home", "results"}
    /\ mounted = TRUE
    /\ query = <<>>
    /\ isFocused = FALSE
    /\ suggestions = <<>>
    /\ localStorage \in {Absent, setItem(JSONstringify(FullHistory))}
    /\ storageRejects \in BOOLEAN
    /\ searchHistory = IF localStorage.present THEN JSONparse(localStorage.item) ELSE <<>>
    /\ loaded = searchHistory
    /\ since = 0
    /\ selectedIndex = -1
    /\ showImageRecognition = FALSE
    /\ voiceTranscript = <<>>
    /\ voiceTimeouts = <<>>
    /\ voiced = 0
    /\ voiceSubmitted = 0
    /\ recorded = <<>>
    /\ searched = <<>>

BarFrame == UNCHANGED <<host, storageRejects, speechVars, storeVars, imageVars>>

\* The popup with the suggestions is on screen (the bar is not listening).
PopupShown ==
    mounted /\ isFocused /\ Len(suggestions) > 0 /\ ~showImageRecognition

\* The user's events are followed until MaxRecords terms have been recorded.
MayRecord == Len(recorded) < MaxRecords

\* onChange of the input
onChange(text) ==
    /\ mounted
    /\ MayRecord
    /\ text # query
    /\ SetBar(Render(Bar, [Bar EXCEPT !.query = text], FALSE))
    /\ UNCHANGED <<voiced, voiceSubmitted, loaded, since>>
    /\ BarFrame

\* onFocus of the input
onFocus ==
    /\ mounted
    /\ MayRecord
    /\ ~isFocused
    /\ SetBar(Render(Bar, [Bar EXCEPT !.isFocused = TRUE], FALSE))
    /\ UNCHANGED <<voiced, voiceSubmitted, loaded, since>>
    /\ BarFrame

\* The 200 ms timeout of onBlur.
onBlurTimeout ==
    /\ mounted
    /\ MayRecord
    /\ isFocused
    /\ SetBar(Render(Bar, [Bar EXCEPT !.isFocused = FALSE], FALSE))
    /\ UNCHANGED <<voiced, voiceSubmitted, loaded, since>>
    /\ BarFrame

\* onKeyDown of the input, for the keys handleKeyDown handles itself. The arrow
\* keys are followed over the first MaxSelected suggestions.
handleKeyDown(key) ==
    /\ mounted
    /\ isFocused
    /\ Len(suggestions) > 0
    /\ MayRecord
    /\ onKeyDown(Bar, key).selectedIndex < MaxSelected
    /\ SetBar(onKeyDown(Bar, key))
    /\ UNCHANGED <<voiced, voiceSubmitted, loaded, since>>
    /\ BarFrame

\* The form is submitted: a click on the submit button, which is enabled, or
\* Enter in the input when handleKeyDown returns early.
submitForm ==
    /\ mounted
    /\ trim(query) # <<>>
    /\ ~isLoadingProp
    /\ MayRecord
    /\ SetBar(SubmitEvent(Bar))
    /\ UNCHANGED <<voiced, voiceSubmitted, loaded, since>>
    /\ BarFrame

\* A click on the button of the suggestion at position i (from 1) of the popup.
clickSuggestion(i) ==
    /\ PopupShown
    /\ i \in 1..Len(suggestions)
    /\ ~IsHeader(suggestions[i])
    /\ MayRecord
    /\ SetBar(onClickSuggestion(Bar, suggestions[i]))
    /\ UNCHANGED <<voiced, voiceSubmitted, loaded, since>>
    /\ BarFrame

\* A click on the X of the history header of the popup.
clearSearchHistory ==
    /\ PopupShown
    /\ MayRecord
    /\ \E i \in 1..Len(suggestions) : includes(suggestions[i].text, HistoryHeaderText)
    /\ Len(searchHistory) > 0
    /\ SetBar(Render(Bar, clearSearchHistoryBody(Bar), TRUE))
    /\ loaded' = <<>>
    /\ since' = Len(recorded)
    /\ UNCHANGED <<voiced, voiceSubmitted>>
    /\ BarFrame

\* A click on the camera button.
handleImageSearch ==
    /\ mounted
    /\ MayRecord
    /\ SetBar([Bar EXCEPT !.showImageRecognition = ~@])
    /\ UNCHANGED <<voiced, voiceSubmitted, loaded, since>>
    /\ BarFrame

\* A click on the search button of a recognition result.
handleImageRecognitionSearch(text) ==
    /\ mounted
    /\ showImageRecognition
    /\ MayRecord
    /\ SetBar(ThenSubmit(Render(Bar, handleImageRecognitionSearchBody(Bar, text), TRUE)))
    /\ UNCHANGED <<voiced, voiceSubmitted, loaded, since>>
    /\ BarFrame

\* The hook hands over a transcript and is not listening.
voiceResult(text) ==
    /\ mounted
    /\ voiced < MaxVoiceResults
    /\ voiced' = voiced + 1
    /\ LET heard == [Bar EXCEPT !.voiceTranscript = text]
       IN  SetBar(Render(Bar, voiceResultEffect(heard), FALSE))
    /\ UNCHANGED <<voiceSubmitted, loaded, since>>
    /\ BarFrame

\* The callback of the oldest pending 500 ms timeout: saveSearchHistory and
\* onSearch of the render it closes over, then resetSpeech(). Without the bar
\* the state updates are dropped; the item of localStorage is written all the same.
\* When saveSearchHistory throws, neither onSearch nor resetSpeech() is called.
voiceTimeout ==
    /\ Len(voiceTimeouts) > 0
    /\ LET closure == Head(voiceTimeouts)
           fired == [Bar EXCEPT !.voiceTimeouts = Tail(@)]
           saved == saveSearchHistory(fired, closure.searchHistory, closure.transcript)
           after == IF Thrown
                      THEN saved
                      ELSE [onSearch(saved, closure.transcript)
                              EXCEPT !.voiceTranscript = <<>>]
       IN  SetBar(Render(Bar, IF mounted THEN after
                                         ELSE [after EXCEPT !.searchHistory = searchHistory],
                         TRUE))
    /\ voiceSubmitted' = voiceSubmitted + 1
    /\ UNCHANGED <<voiced, loaded, since>>
    /\ BarFrame

\* The results page renders again for a reason of its own (a search it started
\* earlier has completed) and hands the bar a new handleNewSearch: the
\* voice-result effect runs again, since onSearch is one of its dependencies.
\* One such render is followed for each completed recognition.
pageRenders ==
    /\ mounted
    /\ host = "results"
    /\ MayRecord
    /\ voiceTranscript # <<>>
    /\ Len(voiceTimeouts) + voiceSubmitted <= voiced
    /\ SetBar(Render(Bar, voiceResultEffect(Bar), FALSE))
    /\ UNCHANGED <<voiced, voiceSubmitted, loaded, since>>
    /\ BarFrame

Keys == {"ArrowDown", "ArrowUp", "Enter", "Escape"}

(***************************************************************************)
(* The image recognition panel                                             *)
(***************************************************************************)
MaxRecognitions == 2

\* 10 * 1024 * 1024 bytes.
maxSize == 10485760

validTypes == {"image/jpeg", "image/jpg", "image/png", "image/gif", "image/bmp"}

\* The files the user can pick or drop: a small picture, one of exactly the
\* largest size accepted, one a byte larger, one of 11 MiB, and two files of
\* a type that is not accepted.
Files ==
    << [type |-> "image/png",  size |-> 1024],
       [type |-> "image/jpeg", size |-> maxSize],
       [type |-> "image/gif",  size |-> maxSize + 1],
       [type |-> "image/bmp",  size |-> 11 * 1024 * 1024],
       [type |-> "image/webp", size |-> 1024],
       [type |-> "application/pdf", size |-> 11 * 1024 * 1024] >>

FileIds == 1..Len(Files)

Recognitions == 1..MaxRecognitions

TypeMessage == "select a valid image file (JPEG, PNG, GIF, BMP)"
SizeMessage == "the image file must not exceed 10MB"
ServiceMessage == "image recognition failed"
NoImageError == "null"

\* The service answers with a list of items, possibly empty, or throws.
RecognitionOutcomes ==
    {[kind |-> "items", n |-> n] : n \in 0..1} \cup {[kind |-> "throws", n |-> 0]}

\* The items of one answer; `of' names the file the answer was produced for.
Items(file, n) == [i \in 1..n |-> [keyword |-> <<"k">>, of |-> file]]

validateTypeOnly(file) ==
    IF file.type \notin validTypes THEN TypeMessage ELSE NoImageError

\* The two checks at the head of handleFileSelect: the message they set, or
\* "null" when the file passes.
validate(file) ==
    IF file.type \notin validTypes THEN TypeMessage
    ELSE IF file.size > maxSize THEN SizeMessage
    ELSE NoImageError

ImageInit ==
    /\ selectedFile = 0
    /\ imageError = NoImageError
    /\ recognitionResults = <<>>
    /\ isRecognizing = FALSE
    /\ isConfigValid = "null"
    /\ recognitions = [c \in Recognitions |-> [pc |-> "unborn", file |-> 0]]

ImageFrame == UNCHANGED <<speechVars, storeVars, barVars>>

\* The effect that asks the service for its configuration; checkConfig
\* answers true.
checkAPIConfig ==
    /\ isConfigValid = "null"
    /\ isConfigValid' = "true"
    /\ UNCHANGED <<selectedFile, imageError, recognitionResults, isRecognizing, recognitions>>
    /\ ImageFrame

\* A file picked in the file dialog or dropped on the drop zone.
handleFileSelect(f) ==
    /\ IF validate(Files[f]) # NoImageError
       THEN /\ imageError' = validate(Files[f])
            /\ UNCHANGED <<selectedFile, recognitionResults>>
       ELSE /\ selectedFile' = f
            /\ imageError' = NoImageError
            /\ recognitionResults' = <<>>
    /\ UNCHANGED <<isRecognizing, isConfigValid, recognitions>>
    /\ ImageFrame

\* The recognise button, up to the await: it is disabled while a recognition
\* runs and until the configuration is known to be valid.
performRecognition ==
    /\ selectedFile # 0
    /\ ~isRecognizing
    /\ isConfigValid = "true"
    /\ \E c \in Recognitions :
        /\ recognitions[c].pc = "unborn"
        /\ \A d \in Recognitions : d < c => recognitions[d].pc # "unborn"
        /\ recognitions' = [recognitions EXCEPT ![c] = [pc |-> "awaiting", file |-> selectedFile]]
    /\ isRecognizing' = TRUE
    /\ imageError' = NoImageError
    /\ UNCHANGED <<selectedFile, recognitionResults, isConfigValid>>
    /\ ImageFrame

\* performRecognition after the await: try, catch and finally.
recognitionSettles(c, outcome) ==
    /\ recognitions[c].pc = "awaiting"
    /\ recognitions' = [recognitions EXCEPT ![c].pc = "settled"]
    /\ IF outcome.kind = "items"
       THEN /\ recognitionResults' = Items(recognitions[c].file, outcome.n)
            /\ UNCHANGED imageError
       ELSE /\ imageError' = ServiceMessage
            /\ UNCHANGED recognitionResults
    /\ isRecognizing' = FALSE
    /\ UNCHANGED <<selectedFile, isConfigValid>>
    /\ ImageFrame

\* The timeout that the clear button of the preview starts.
clearImage ==
    /\ selectedFile # 0
    /\ selectedFile' = 0
    /\ recognitionResults' = <<>>
    /\ imageError' = NoImageError
    /\ UNCHANGED <<isRecognizing, isConfigValid, recognitions>>
    /\ ImageFrame

(***************************************************************************)
(* Specifications                                                          *)
(***************************************************************************)
\* Each specification follows one component; the others stay as they start,
\* and their hosts are fixed: a browser with speech recognition, a hook with
\* auto-stop, the home page, no stored history, a storage that takes the
\* writes. A storage that rejects the writes is followed on the results page,
\* where it holds no item.
InitSpeech ==
    /\ SpeechInit /\ StoreInit /\ BarInit /\ ImageInit
    /\ host = "home" /\ localStorage = Absent /\ ~storageRejects

InitStore ==
    /\ SpeechInit /\ StoreInit /\ BarInit /\ ImageInit
    /\ isSupported /\ autoStop
    /\ host = "home" /\ localStorage = Absent /\ ~storageRejects

InitBar ==
    /\ SpeechInit /\ StoreInit /\ BarInit /\ ImageInit
    /\ isSupported /\ autoStop
    /\ storageRejects => (host = "results" /\ localStorage = Absent)

NextSpeech ==
    \/ startListening
    \/ stopListening
    \/ reset
    \/ clearTranscript
    \/ cleanup
    \/ \E s \in Sessions : onstart(s)
    \/ \E s \in Sessions : \E batch \in Batches : onresult(s, batch)
    \/ \E s \in Sessions : \E code \in EngineErrors : onerror(s, code)
    \/ \E s \in Sessions : onend(s)
    \/ \E t \in Timers : autoStopTimeout(t)

SpecSpeech == InitSpeech /\ [][NextSpeech]_vars

NextStore ==
    \/ \E text \in QueryTexts : addQuery(text)
    \/ \E queryId \in QueryIds : \E outcome \in GitHubOutcomes :
           addQuerySettles(queryId, outcome)
    \/ clearQueries

SpecStore == InitStore /\ [][NextStore]_vars

\* The store together with the delete buttons of the history panel, which
\* change nothing the store holds.
NextPanel ==
    \/ NextStore
    \/ \E id \in QueryIds : handleQueryDelete(id)

SpecPanel == InitStore /\ [][NextPanel]_vars

NextBar ==
    \/ \E text \in TypedTexts : onChange(text)
    \/ onFocus
    \/ onBlurTimeout
    \/ \E key \in Keys : handleKeyDown(key)
    \/ submitForm
    \/ \E i \in 1..12 : clickSuggestion(i)
    \/ clearSearchHistory
    \/ handleImageSearch
    \/ \E text \in ImageTexts : handleImageRecognitionSearch(text)
    \/ \E text \in VoiceTexts : voiceResult(text)
    \/ voiceTimeout
    \/ pageRenders

SpecBar == InitBar /\ [][NextBar]_vars

InitImage ==
    /\ SpeechInit /\ StoreInit /\ BarInit /\ ImageInit
    /\ isSupported /\ autoStop
    /\ host = "home" /\ localStorage = Absent /\ ~storageRejects

NextImage ==
    \/ checkAPIConfig
    \/ \E f \in FileIds : handleFileSelect(f)
    \/ performRecognition
    \/ \E c \in Recognitions : \E outcome \in RecognitionOutcomes :
           recognitionSettles(c, outcome)
    \/ clearImage

SpecImage == InitImage /\ [][NextImage]_vars

(***************************************************************************)
(* Claims about the speech recognition controller                          *)
(***************************************************************************)

\* The sessions the controller has started and not asked to stop, and that the
\* engine has neither failed nor ended.
ActiveSessions ==
    {s \in Sessions : session[s].state \in {"starting", "started"}
                      /\ ~session[s].stopRequested}

\* C1: at most one recognition session of a controller is active at any time; a
\* start during an active session first terminates the old session.
C1_AtMostOneActiveSession == Cardinality(ActiveSessions) <= 1

\* The timers window.setTimeout has handed out.
Armed == {t \in Timers : t < nextTimer}

\* C2 as stated: a countdown that no later final segment restarted and that no
\* stop(), reset() or disposal cancelled has, once it is no longer pending,
\* invoked stop() exactly once, whatever engine events came in between.
C2_StopOnceWhateverEvents ==
    \A t \in Armed :
        (t \notin pendingTimers /\ timerCleared[t] \notin {"result", "stop", "reset", "dispose"})
            => timerStops[t] = 1

C2_CountdownAccount ==
    /\ Cardinality(pendingTimers) <= 1
    /\ \A t \in Timers :
        /\ timerStops[t] <= 1
        /\ t \notin Armed => (t \notin pendingTimers /\ timerStops[t] = 0
                                /\ timerCleared[t] = "none")
        /\ t \in pendingTimers => (timerStops[t] = 0 /\ timerCleared[t] = "none"
                                     /\ autoStopTimerRef = t)
        /\ (t \in Armed /\ t \notin pendingTimers /\ timerCleared[t] = "none")
               => timerStops[t] = 1
        /\ timerCleared[t] # "none" => timerStops[t] = 0

\* A step of onresult leaves the sessions, the disposal and the count of stop()
\* calls alone; with auto-stop, one whose batch has final text arms a timer.
C2_FinalSegmentArms ==
    (autoStop /\ session' = session /\ disposed' = disposed /\ timerStops' = timerStops)
        => \A batch \in {b \in Batches : Concat(b, 1, TRUE) # <<>>} :
               \A s \in {r \in Sessions : session[r].state = "started"} :
                   onresult(s, batch)
                       => (pendingTimers' = {nextTimer} /\ autoStopTimerRef' = nextTimer)

\* C2 (amended): with auto-stop, a batch with non-empty final text starts a
\* countdown and cancels the pending one; a countdown invokes stop() once when it
\* elapses and never twice, and not at all when a later final segment, the
\* session-ended event, stop(), reset() or the disposal cancelled it first.
C2_AutoStopOnceUnlessCancelled == []C2_CountdownAccount /\ [][C2_FinalSegmentArms]_vars

\* A countdown was restarted by a later final segment and the later one elapsed.
C2_Witness ==
    \E t, u \in Armed : timerCleared[t] = "result" /\ timerStops[u] = 1

\* C10: without the host capability the status is unsupported and stays so, and
\* no start creates an engine session.
C10_UnsupportedIsTerminal ==
    ~isSupported => (status = NOT_SUPPORTED /\ Born = {})

\* C11: after the disposal no auto-stop timer is pending, then or later, and the
\* session the controller holds has been asked to stop.
C11_NothingPendingAfterDisposal ==
    disposed =>
        /\ pendingTimers = {}
        /\ recognitionRef # 0 =>
               (session[recognitionRef].state \notin Live
                  \/ session[recognitionRef].stopRequested)

\* The status changes the state machine of the specification has.
StatusTransitions ==
    {<<IDLE, LISTENING>>, <<LISTENING, RECOGNIZING>>, <<LISTENING, IDLE>>,
     <<RECOGNIZING, IDLE>>, <<LISTENING, ERROR>>, <<RECOGNIZING, ERROR>>,
     <<ERROR, IDLE>>}

C12_StatusStep ==
    (isSupported /\ status' # status) =>
        \/ <<status, status'>> \in StatusTransitions
        \/ status' = ERROR /\ startListening
        \/ status' = ERROR /\ \E s \in Sessions : /\ session[s].state = "starting"
                                                  /\ session'[s].state = "failing"

\* C12: with the host capability the status changes only from idle to listening, from listening to
\* recognizing, from listening or recognizing to idle or to error, and from
\* error to idle; a start that fails, in startListening or by an engine error
\* before the session has started, may enter error from any status.
C12_StatusFollowsStateMachine == [][C12_StatusStep]_vars

\* The controller's state.
Controller ==
    [status |-> status, transcript |-> transcript, interimTranscript |-> interimTranscript,
     finalTranscript |-> finalTranscript, error |-> error, recognitionRef |-> recognitionRef,
     autoStopTimerRef |-> autoStopTimerRef, session |-> session,
     pendingTimers |-> pendingTimers]

\* stopListening as a function of the controller's state.
stopListeningOn(c) ==
    LET stopped == IF c.recognitionRef # 0
                     THEN [c EXCEPT !.session = EngineStop(c.session, c.recognitionRef),
                                    !.recognitionRef = 0]
                     ELSE c
        cleared == IF stopped.autoStopTimerRef # 0
                     THEN [stopped EXCEPT !.pendingTimers =
                                              clearTimeout(@, stopped.autoStopTimerRef),
                                          !.autoStopTimerRef = 0]
                     ELSE stopped
    IN  [cleared EXCEPT !.status = SetState(IDLE, @)]

\* The engine has no session that is starting, running or winding down.
NoLiveSession == \A s \in Sessions : session[s].state \notin Live

C13_StopOnThisState ==
    LET once == stopListeningOn(Controller)
    IN  /\ (status = IDLE /\ NoLiveSession) =>
               /\ once.status = status
               /\ once.transcript = transcript
               /\ once.interimTranscript = interimTranscript
               /\ once.finalTranscript = finalTranscript
               /\ once.error = error
               /\ once.session = session
               /\ once.autoStopTimerRef = autoStopTimerRef
               /\ once.pendingTimers = pendingTimers
        /\ stopListeningOn(once) = once
        /\ once.recognitionRef = 0
        /\ once.autoStopTimerRef = 0
        /\ once.pendingTimers = {}
        /\ ~disposed => once.status = IDLE
        /\ (recognitionRef # 0 /\ session[recognitionRef].state \in Live) =>
               once.session[recognitionRef].stopRequested

C13_StopStep == stopListening => Controller' = stopListeningOn(Controller)

FailedStart ==
    /\ startListening
    /\ \/ ~isSupported
       \/ \E outcome \in StartOutcomes \ {"ok"} : StartSupported(outcome)

C14_FailedStartEntersError ==
    FailedStart => (status' = ERROR /\ error' # NoError)

\* C14 as stated: a start that fails, for want of the capability or because the
\* engine throws, ends in status error with an error set.
C14_FailedStartEndsInError == [][C14_FailedStartEntersError]_vars

C14_FailedStartSetsError ==
    FailedStart =>
        /\ error' # NoError
        /\ error'.message # <<>>
        /\ IF isSupported
             THEN status' = ERROR /\ error'.error = "initialization_error"
             ELSE status' = status /\ error'.error = "not_supported" /\ Born' = {}

\* C14 (amended): a start that fails sets an error with a code and a message;
\* when the engine throws the code is initialization_error and the status
\* becomes error; without the capability the code is not_supported and the
\* status is left as it was.
C14_FailedStartReportsError == [][C14_FailedStartSetsError]_vars

\* A start on a host without the capability has set the error and left the
\* status as it was.
C14_Witness ==
    ~isSupported /\ error.error = "not_supported" /\ status # ERROR

(***************************************************************************)
(* Claims about the search store                                           *)
(***************************************************************************)

\* The calls of addQuery so far.
Started == {id \in QueryIds : call[id].pc # "unborn"}

\* The positions in history of the records with this id.
At(qs, id) == {i \in 1..Len(qs) : qs[i].id = id}

\* C3 as stated: the global loading flag is never false while the most recently
\* started query is still loading.
C3_LoadingWhileLatestLoads ==
    \A id \in Started :
        (id = Cardinality(Started) /\ call[id].pc = "awaiting") => isLoading

C3_LoadingImpliesLatestAwaits ==
    isLoading => (Started # {} /\ call[Cardinality(Started)].pc = "awaiting")

C3_AnyCompletionClears ==
    /\ \A id \in QueryIds :
         (call[id].pc = "awaiting" /\ call'[id].pc = "settled") => ~isLoading'
    /\ \A id \in QueryIds :
         (call[id].pc = "unborn" /\ call'[id].pc = "awaiting") => isLoading'

\* C3 (amended): every addQuery sets the global loading flag and the completion
\* of any call, not only of the most recently started one, clears it; the flag
\* is true only while the most recently started call is in flight, and may be
\* false while that call, or an earlier one, is still loading.
C3_LoadingClearedByAnyCompletion ==
    []C3_LoadingImpliesLatestAwaits /\ [][C3_AnyCompletionClears]_vars

\* An earlier call has completed and cleared the flag while the latest call loads.
C3_Witness ==
    /\ ~isLoading
    /\ \E id \in Started : id = Cardinality(Started) /\ call[id].pc = "awaiting"
    /\ \E id \in Started : call[id].pc = "settled"

C4_OthersUnchanged ==
    \A id \in QueryIds :
        (call[id].pc = "awaiting" /\ call'[id].pc = "settled") =>
            /\ Len(queries') = Len(queries)
            /\ \A i \in 1..Len(queries) :
                 /\ queries'[i].id = queries[i].id
                 /\ queries[i].id # id => queries'[i] = queries[i]

\* C4: the completion of one addQuery call changes only the record with the id
\* it created; the other records, and the order and number of records, stay.
C4_CompletionTouchesOwnRecordOnly == [][C4_OthersUnchanged]_vars

\* A call has completed while the record of another call is in history.
C4_Witness ==
    \E i, j \in 1..Len(queries) :
        /\ i # j
        /\ call[queries[i].id].pc = "settled"
        /\ ~queries[i].isLoading
        /\ queries[j].isLoading

\* What a settled call's record holds according to the outcome of the request.
ExpectedResults(id) ==
    IF call[id].outcome.kind = "items"
      THEN transformGitHubResults(call[id].outcome.n)
      ELSE mockSearchResults(call[id].query)

\* C5 as stated: a record whose call has settled is in history under its id with
\* loading false, on success with the returned results and no error, on failure
\* with an error or with synthetic results.
C5_SettledRecordInHistory ==
    \A id \in Started :
        call[id].pc = "settled" =>
            \E i \in At(queries, id) :
                /\ ~queries[i].isLoading
                /\ call[id].outcome.kind = "items" =>
                       (queries[i].results = ExpectedResults(id)
                          /\ queries[i].error = Undefined)
                /\ call[id].outcome.kind = "fails" =>
                       (queries[i].error # Undefined \/ queries[i].results # <<>>)

C5_RecordFollowsCall ==
    \A id \in QueryIds :
        /\ call[id].pc = "unborn" => (At(queries, id) = {} /\ id \notin removed)
        /\ (call[id].pc # "unborn" /\ id \in removed) => At(queries, id) = {}
        /\ (call[id].pc # "unborn" /\ id \notin removed) =>
              /\ Cardinality(At(queries, id)) = 1
              /\ \A i \in At(queries, id) :
                   /\ queries[i].query = call[id].query
                   /\ call[id].pc = "awaiting" =>
                          (queries[i].isLoading /\ queries[i].results = <<>>
                             /\ queries[i].error = Undefined)
                   /\ call[id].pc = "settled" =>
                          (~queries[i].isLoading /\ queries[i].error = Undefined
                             /\ queries[i].results = ExpectedResults(id))

C5_NeverBackToLoading ==
    \A i \in 1..Len(queries) : \A j \in 1..Len(queries') :
        (queries'[j].id = queries[i].id /\ ~queries[i].isLoading)
            => ~queries'[j].isLoading

\* C5 (amended): a record starts with loading true, no results and no error; when
\* its call settles it moves once to loading false and never back, with the
\* returned results on success and the synthetic results when the request failed,
\* error undefined in both cases; it stays reachable by its id unless
\* clearQueries() has dropped it, after which the completion changes nothing.
C5_RecordLifecycle == []C5_RecordFollowsCall /\ [][C5_NeverBackToLoading]_vars

\* One record holds the results of a request that succeeded, another the
\* synthetic results of a request that failed.
C5_Witness ==
    \E i, j \in 1..Len(queries) :
        /\ call[queries[i].id].pc = "settled"
        /\ call[queries[i].id].outcome.kind = "items"
        /\ Len(queries[i].results) = MaxItems
        /\ call[queries[j].id].pc = "settled"
        /\ call[queries[j].id].outcome.kind = "fails"
        /\ Len(queries[j].results) = 3

\* C6 as stated: when the request fails, the record of the call ends with an
\* error string set and loading false.
C6_FailureSetsError ==
    \A id \in Started :
        (call[id].pc = "settled" /\ call[id].outcome.kind = "fails") =>
            \A i \in At(queries, id) :
                queries[i].error # Undefined /\ ~queries[i].isLoading

\* C6 (amended): when the request fails, searchAPI.search resolves with the
\* synthetic results, so no rejection reaches addQuery, and the record ends
\* with those results, loading false and the error left undefined.
C6_FailureFallsBackToMock ==
    \A id \in Started :
        (call[id].pc = "settled" /\ call[id].outcome.kind = "fails") =>
            /\ search(call[id].query, call[id].outcome).settled = "resolved"
            /\ \A i \in At(queries, id) :
                 /\ queries[i].error = Undefined
                 /\ ~queries[i].isLoading
                 /\ queries[i].results = mockSearchResults(call[id].query)

\* The record of a call whose request failed is in history.
C6_Witness ==
    \E id \in Started :
        /\ call[id].pc = "settled"
        /\ call[id].outcome.kind = "fails"
        /\ At(queries, id) # {}

\* The ids of the records addQuery has created since the start or since the
\* last clearQueries.
Kept == Started \ removed

\* C17: the current query is null exactly when no query has been added since
\* the start or the last clearQueries; otherwise it is the most recently
\* created query and equals the record at the front of history, field by field.
C17_CurrentIsLatest ==
    /\ currentQuery = NullQuery <=> Kept = {}
    /\ Kept # {} =>
          /\ queries # <<>>
          /\ currentQuery.id = Cardinality(Started)
          /\ currentQuery.id = queries[1].id
          /\ currentQuery.query = queries[1].query
          /\ currentQuery.results = queries[1].results
          /\ currentQuery.isLoading = queries[1].isLoading
          /\ currentQuery.error = queries[1].error

\* After a clearQueries the current query is a record with results, in front of
\* an older record.
C17_Witness ==
    /\ removed # {}
    /\ Len(queries) >= 2
    /\ currentQuery # NullQuery
    /\ ~currentQuery.isLoading
    /\ currentQuery.results # <<>>

\* The ids of the records, in the order of history.
Ids(qs) == [i \in 1..Len(qs) |-> qs[i].id]

C18_UniqueNewestFirst ==
    \A i, j \in 1..Len(queries) : i < j => queries[i].id > queries[j].id

C18_UpdateKeepsRecords ==
    \A id \in QueryIds :
        (call[id].pc = "awaiting" /\ call'[id].pc = "settled") => Ids(queries') = Ids(queries)

\* C18: no two records of history have the same id and the records are in the
\* order of their creation, newest first (ids are numbered by creation); the
\* update of a completed call keeps the records and their order.
C18_HistoryIsIdUniqueAndOrdered ==
    []C18_UniqueNewestFirst /\ [][C18_UpdateKeepsRecords]_vars

\* History is full and the record in its middle has been updated by its id.
C18_Witness ==
    /\ Len(queries) = MaxQueries
    /\ \E i \in 2..(Len(queries) - 1) : ~queries[i].isLoading /\ queries[i].results # <<>>
    /\ queries[1].isLoading

C19_AddStep ==
    \A id \in QueryIds :
        (call[id].pc = "unborn" /\ call'[id].pc = "awaiting") =>
            LET newQuery == [id |-> id, query |-> call'[id].query, results |-> <<>>,
                             isLoading |-> TRUE, error |-> Undefined]
            IN  /\ call'[id].query \in QueryTexts
                /\ queries' = <<newQuery>> \o queries
                /\ currentQuery' = newQuery
                /\ isLoading'
                /\ \A other \in QueryIds \ {id} : call'[other] = call[other]

\* C19: addQuery(text), before its search settles, puts a new record with the
\* text, no results and loading true in front of history, leaves the earlier
\* records unchanged behind it, makes it the current query and sets the global
\* loading flag.
C19_AddQueryInsertsInFront == [][C19_AddStep]_vars

\* addQuery has put a loading record in front of a record that has its results.
C19_Witness ==
    /\ Len(queries) >= 2
    /\ call[queries[1].id].pc = "awaiting"
    /\ queries[1].isLoading
    /\ currentQuery = queries[1]
    /\ isLoading
    /\ ~queries[2].isLoading

(***************************************************************************)
(* Claims about the search bar                                             *)
(***************************************************************************)

RECURSIVE Distinct(_)
\* The sequence without the later occurrences of its elements.
Distinct(seq) ==
    IF seq = <<>>
      THEN <<>>
      ELSE <<Head(seq)>> \o Distinct(SelectSeq(Tail(seq), LAMBDA item : item # Head(seq)))

Reverse(seq) == [i \in 1..Len(seq) |-> seq[Len(seq) + 1 - i]]

\* The terms recorded since the history was loaded or cleared, newest first,
\* followed by the history as it was then.
RecentFirst == Reverse(SubSeq(recorded, since + 1, Len(recorded))) \o loaded

\* C7: the history has no two equal entries and at most 10 of them, and lists
\* the distinct recorded texts by their most recent recording, newest first.
C7_HistoryListsRecentRecords ==
    mounted =>
        /\ Len(searchHistory) <= HistoryCap
        /\ \A i, j \in 1..Len(searchHistory) :
               searchHistory[i] = searchHistory[j] => i = j
        /\ searchHistory = slice(Distinct(RecentFirst), HistoryCap)

\* The suggestions of the popup that are buttons.
Selectable == {i \in 1..Len(suggestions) : ~IsHeader(suggestions[i])}

\* The handler has called onSearch once and saveSearchHistory once, with text.
SearchedAndRecordedOnce(after, text) ==
    /\ after.searched = Append(searched, text)
    /\ after.recorded = Append(recorded, text)

\* C8: selecting a suggestion of any kind, by a click or by the arrow keys and
\* Enter, calls the search callback once with its text and records it once.
C8_SelectionSearchesAndRecordsOnce ==
    PopupShown =>
        /\ \A i \in Selectable :
               SearchedAndRecordedOnce(onClickSuggestion(Bar, suggestions[i]),
                                       suggestions[i].text)
        /\ (selectedIndex + 1) \in Selectable =>
               SearchedAndRecordedOnce(onKeyDown(Bar, "Enter"),
                                       suggestions[selectedIndex + 1].text)

\* The inputs of the suggestion generator: the input's text and the empty text.
GeneratorInputs == {query, <<>>}

\* C9 as stated: for every input, empty or not, and every history the
\* suggestion generator returns at most 8 entries.
C9_AtMostEightForEveryInput ==
    /\ Len(suggestions) <= SuggestionCap
    /\ \A input \in GeneratorInputs :
           Len(generateSuggestions(input, searchHistory)) <= SuggestionCap

\* C9 (amended): for an input that is not blank the suggestion generator returns
\* at most 8 entries; for a blank input it returns the history header with at
\* most 5 history entries and the trending header with at most 5 trending
\* entries, which is up to 12 entries.
C9_AtMostEightForTypedInput ==
    \A input \in GeneratorInputs :
        LET generated == generateSuggestions(input, searchHistory)
        IN  /\ trim(input) # <<>> => Len(generated) <= SuggestionCap
            /\ trim(input) = <<>> =>
                   Len(generated) <= 1 + HistoryShown + 1 + TrendingShown
            /\ (mounted /\ isFocused /\ input = query) => suggestions = generated

\* The popup shows 8 suggestions for a typed input for which more were collected.
C9_Witness ==
    /\ PopupShown
    /\ trim(query) # <<>>
    /\ Len(suggestions) = SuggestionCap
    /\ Len(typedInputSuggestions(query, searchHistory)) > SuggestionCap

\* The texts of a list of suggestions, with the type of each.
TextsAndTypes(list) == [i \in 1..Len(list) |-> <<list[i].text, list[i].type>>]

\* What the specification lists for an empty input and this history.
EmptyInputSections(history) ==
    LET recent == slice(history, HistoryShown)
        trending == slice(trendingSearches, TrendingShown)
    IN  (IF history = <<>>
           THEN <<>>
           ELSE << <<HistoryHeaderText, "history">> >>
                \o [i \in 1..Len(recent) |-> <<recent[i], "history">>])
        \o << <<TrendingHeaderText, "trending">> >>
        \o [i \in 1..Len(trending) |-> <<trending[i], "trending">>]

\* C20: for the empty input the suggestions are the history header, present
\* exactly when the history is not empty, the first 5 entries of the history,
\* which lists the most recent first, the trending header and the first 5
\* entries of the trending list, in this order; the popup of a focused bar with
\* an empty input shows this list.
C20_EmptyInputListsHistoryThenTrending ==
    /\ TextsAndTypes(generateSuggestions(<<>>, searchHistory))
           = EmptyInputSections(searchHistory)
    /\ (mounted /\ isFocused /\ query = <<>>) =>
           TextsAndTypes(suggestions) = EmptyInputSections(searchHistory)

\* The popup for the empty input shows both sections, the history section with
\* 5 of more than 5 entries, the text recorded last in front.
C20_Witness ==
    /\ PopupShown
    /\ query = <<>>
    /\ Len(searchHistory) > HistoryShown
    /\ Len(suggestions) = 1 + HistoryShown + 1 + TrendingShown
    /\ Len(recorded) > 0
    /\ suggestions[2].text = recorded[Len(recorded)]

\* C15: a write the storage rejects does not keep a submitted text from the
\* search callback: every text handed to saveSearchHistory has been handed to
\* onSearch, in the same order.
C15_SearchedWhateverTheStorage == searched = recorded

\* The history as the load effect reconstructs it from the storage.
Persisted == IF localStorage.present THEN JSONparse(localStorage.item) ELSE <<>>

C16_PersistedIsHistory ==
    (mounted /\ ~storageRejects) => Persisted = searchHistory

C16_ClearStep ==
    clearSearchHistory => (searchHistory' = <<>> /\ localStorage' = Absent)

OfType(list, type) == {i \in 1..Len(list) : list[i].type = type}

\* The place of a type in the order history, smart, related.
Rank(type) == CASE type = "history" -> 1 [] type = "smart" -> 2 [] OTHER -> 3

\* The entries of the history that contain the input, whatever the case.
Matching(input, history) ==
    SelectSeq(history, LAMBDA item : includes(toLowerCase(item), toLowerCase(input)))

\* The keywords of the related table the input contains, by their position.
RelatedHits(input) ==
    {k \in 1..Len(relatedMap) : includes(toLowerCase(input), relatedMap[k].key)}

\* What C21 and its amendment share: at most 3 history entries, which contain
\* the input, then the smart suggestions, then the related ones, which come
\* from the first keyword of the related table that the input contains.
C21_Sections(list, input, history) ==
    /\ Cardinality(OfType(list, "history")) <= HistoryMatchesShown
    /\ \A i \in OfType(list, "history") :
           /\ includes(toLowerCase(list[i].text), toLowerCase(input))
           /\ list[i].text = Matching(input, history)[i]
    /\ Cardinality(OfType(list, "history"))
           = Min(HistoryMatchesShown, Len(Matching(input, history)))
    /\ \A i, j \in 1..Len(list) : i < j => Rank(list[i].type) <= Rank(list[j].type)
    /\ \A i \in 1..Len(list) : list[i].type \in {"history", "smart", "related"}
    /\ \A i \in OfType(list, "related") :
           \E k \in RelatedHits(input) :
               /\ \A g \in RelatedHits(input) : k <= g
               /\ list[i].id[2] = relatedMap[k].key
               /\ \E v \in 1..Len(relatedMap[k].values) : list[i].text = relatedMap[k].values[v]

Rejected(f) ==
    \/ Files[f].type \notin {"image/jpeg", "image/jpg", "image/png", "image/gif", "image/bmp"}
    \/ Files[f].size > 10 * 1024 * 1024

C22_NoCallForRejected ==
    \A c \in Recognitions :
        recognitions[c].pc # "unborn" =>
            recognitions[c].file \in FileIds /\ ~Rejected(recognitions[c].file)

C22_RejectStep ==
    \A f \in FileIds :
        (Rejected(f) /\ handleFileSelect(f)) =>
            /\ imageError' \in {TypeMessage, SizeMessage}
            /\ UNCHANGED <<selectedFile, recognitionResults, recognitions, isRecognizing>>

C22_SelectedIsAcceptable ==
    selectedFile # 0 => ~Rejected(selectedFile)

\* C22: selecting a file whose type is outside the allow-list or whose size
\* exceeds 10 MiB sets a validation error and changes nothing else, the
\* selected file is never such a file, and no call of the service is ever
\* made for such a file.
C22_RejectedFileIsNeverSent ==
    /\ [](C22_NoCallForRejected /\ C22_SelectedIsAcceptable)
    /\ [][C22_RejectStep]_vars

\* An 11 MiB file was refused while an accepted picture stays selected and
\* its recognition has been answered.
C22_Witness ==
    /\ imageError = SizeMessage
    /\ selectedFile # 0
    /\ \E c \in Recognitions : recognitions[c].pc = "settled"

\* C23: every result on display was produced for the image that is selected
\* now.
C23_ResultsAreOfSelectedImage ==
    \A i \in 1..Len(recognitionResults) : recognitionResults[i].of = selectedFile

(***************************************************************************)
(* Claims about reset, the transcripts and late callbacks                  *)
(***************************************************************************)
\* reset as a function of the controller's state.
resetOn(c) ==
    [stopListeningOn(c) EXCEPT !.transcript = SetState(<<>>, @),
                               !.interimTranscript = SetState(<<>>, @),
                               !.finalTranscript = SetState(<<>>, @),
                               !.error = SetState(NoError, @),
                               !.status = SetState(IDLE, @)]

\* C24 as stated: after reset() every session that was active has been asked
\* to stop, no timer is pending, the transcripts and the error are cleared and
\* the status is idle.
C24_ResetStopsEverySessionStep ==
    (reset /\ ~disposed) =>
        /\ \A s \in Sessions : session[s].state \in Live => session'[s].stopRequested
        /\ pendingTimers' = {}
        /\ transcript' = <<>> /\ interimTranscript' = <<>> /\ finalTranscript' = <<>>
        /\ error' = NoError
        /\ status' = IDLE

C24_ResetStep ==
    reset =>
        /\ Controller' = resetOn(Controller)
        /\ recognitionRef' = 0
        /\ (recognitionRef # 0 /\ session[recognitionRef].state \in Live) =>
               session'[recognitionRef].stopRequested
        /\ \A s \in Sessions : s # recognitionRef => session'[s] = session[s]
        /\ autoStopTimerRef' = 0
        /\ pendingTimers' = {}
        /\ ~disposed =>
               /\ transcript' = <<>> /\ interimTranscript' = <<>> /\ finalTranscript' = <<>>
               /\ error' = NoError
               /\ status' = IDLE

RECURSIVE Joined(_, _, _)
Joined(batch, n, wantFinal) ==
    IF n = 0 THEN <<>>
    ELSE Joined(batch, n - 1, wantFinal)
         \o (IF batch[n].isFinal = wantFinal THEN batch[n].transcript ELSE <<>>)

C25_TranscriptIsFinalThenInterim == transcript = finalTranscript \o interimTranscript

C25_ResultStep ==
    \A s \in Sessions : \A batch \in Batches :
        (onresult(s, batch) /\ ~disposed) =>
            /\ interimTranscript' = Joined(batch, Len(batch), FALSE)
            /\ finalTranscript' = Joined(batch, Len(batch), TRUE)
            /\ transcript' = finalTranscript' \o interimTranscript'

\* C25: in every reachable state the combined transcript is the final text
\* followed by the interim text, and after a result batch the interim text is
\* the batch's interim segments and the final text the batch's final segments,
\* each joined in the order of the batch.
C25_TranscriptIsConcatenation ==
    []C25_TranscriptIsFinalThenInterim /\ [][C25_ResultStep]_vars

\* A batch of two final segments has arrived.
C25_Witness ==
    /\ ~disposed
    /\ finalTranscript = <<"c", "a">>
    /\ interimTranscript = <<>>
    /\ transcript = <<"c", "a">>

(***************************************************************************)
(* Claims about deleting and clearing the query history                    *)
(***************************************************************************)
\* C26: a record whose deletion was asked for by its id is no longer in the
\* query history.
C26_DeletedRecordIsGone ==
    \A id \in deleteAsked : \A i \in 1..Len(queries) : queries[i].id # id

C30_NoRecordOfClearedCall ==
    /\ \A i \in 1..Len(queries) : queries[i].id \notin removed
    /\ currentQuery.id \notin removed

\* The step is the completion of the search call of queryId.
Completes(queryId) == call[queryId].pc = "awaiting" /\ call'[queryId].pc = "settled"

\* The step is an addQuery: a call is born.
Adds == \E id \in QueryIds : call[id].pc = "unborn" /\ call'[id].pc # "unborn"

C30_LateCompletionStep ==
    \A queryId \in removed :
        Completes(queryId) =>
            /\ queries' = queries
            /\ currentQuery' = currentQuery

C30_StaysEmptyStep ==
    (queries = <<>> /\ currentQuery = NullQuery /\ ~Adds) =>
        (queries' = <<>> /\ currentQuery' = NullQuery)

\* C30: the completion of a search call whose record clearQueries() has
\* dropped changes neither the history nor the current query; no record of
\* such a call is ever in the history or current; an empty history with a null
\* current query stays so on every step that is not an addQuery.
C30_ClearedStaysCleared ==
    /\ []C30_NoRecordOfClearedCall
    /\ [][C30_LateCompletionStep]_vars
    /\ [][C30_StaysEmptyStep]_vars

\* A search call has completed after clearQueries() dropped its record, and
\* the history is empty and no query is current.
C30_Witness ==
    /\ queries = <<>>
    /\ currentQuery = NullQuery
    /\ \E id \in removed : call[id].pc = "settled" /\ call[id].late

\* A callback of session s that the engine delivers after the controller has
\* stopped the session and dropped its reference to it.
LateCallback(s) ==
    /\ ~disposed
    /\ recognitionRef = 0
    /\ status = IDLE
    /\ session[s].stopRequested
    /\ \/ onstart(s)
       \/ \E batch \in Batches : onresult(s, batch)
       \/ \E code \in EngineErrors : onerror(s, code)

C27_LateCallbackStep ==
    \A s \in Sessions :
        LateCallback(s) =>
            /\ status' = IDLE
            /\ UNCHANGED <<transcript, interimTranscript, finalTranscript>>
            /\ pendingTimers' = pendingTimers

\* C27: between stop() or reset() and the next start(), a late session-started,
\* result or error callback of the stopped session leaves the status idle,
\* leaves the transcripts as they are and arms no auto-stop timer.
C27_QuiescentAfterStop == [][C27_LateCallbackStep]_vars

(***************************************************************************)
(* Claims about what the search bar submits                                *)
(***************************************************************************)
\* C28: the delayed submissions that have run, each of which records the
\* transcript and searches for it, are at most as many as the voice
\* recognitions that have completed.
C28_OneSubmissionPerVoiceResult == voiceSubmitted <= voiced

\* C29: every text passed to the search callback and every text recorded into
\* the history is non-empty after trimming.
C29_NoEmptyQuerySubmitted ==
    /\ \A i \in 1..Len(searched) : trim(searched[i]) # <<>>
    /\ \A i \in 1..Len(recorded) : trim(recorded[i]) # <<>>
====
